---------------------------- MODULE Spec2Model ----------------------------
(***************************************************************************)
(* Model of the vertical clip feed of tinky: the watch screen              *)
(* (src/app/tabs/watch.tsx), the feed and its per-clip video items         *)
(* (src/components/VerticalVideoPlayer.tsx, the current version of the     *)
(* component, lines 396-896) and the progress service                      *)
(* (src/lib/clipsService.ts).                                              *)
(*                                                                         *)
(* Clip indexes are 0-based as in the code; TLA+ sequences are 1-based, so *)
(* the clip at index i is film.clips[i + 1].  Positions are kept in         *)
(* milliseconds (status.positionMillis); the code's seconds are            *)
(* positionMillis / 1000 and Math.floor of them is positionMillis \div 1000.*)
(***************************************************************************)
EXTENDS Integers, Sequences, FiniteSets, TLC

VARIABLES
    film,            \* watch.tsx: film (the Film returned by getFilm)
    user,            \* useAuth().user?.id || '' ("" is the anonymous viewer)
    watchClipIndex,  \* watch.tsx: currentClipIndex
    watchProgress,   \* watch.tsx: watchProgress (<<>> is null)
    alert,           \* index named by the last 'Premium Content' Alert, -1 if none
    currentIndex,    \* VerticalVideoPlayer: currentIndex (the active index)
    lastReport,      \* the scroll surface's last visibility measurement
    isPlaying,       \* VideoItem state isPlaying, per clip index
    isLoaded,        \* VideoItem state isLoaded, per clip index
    hState,          \* player handle (expo-av Video): "unloaded" | "paused" | "playing"
    hPos,            \* player handle: positionMillis
    cmds,            \* player handle: playAsync/pauseAsync calls not yet completed
    localStore,      \* AsyncStorage value under tinky_watch_progress_<filmId>
    remoteStore,     \* watch_progress rows of the film, per user id
    saves,           \* every saveProgress call issued so far, with its phase
    tickNo,          \* number of status events of the 3-per-second tick stream
    call             \* the last call of a pure clipsService function, with its result

vars == <<film, user, watchClipIndex, watchProgress, alert, currentIndex,
          lastReport, isPlaying, isLoaded, hState, hPos, cmds, localStore,
          remoteStore, saves, tickNo, call>>

\* the state of the watch screen, the feed, the players and the stores
feedVars == <<film, user, watchClipIndex, watchProgress, alert, currentIndex,
              lastReport, isPlaying, isLoaded, hState, hPos, cmds, localStore,
              remoteStore, saves, tickNo>>

\* no pure function was called yet
NoCall == [fn |-> "none"]

-----------------------------------------------------------------------------
(* Bounds of the model *)

\* at most this many saveProgress calls in one behaviour (SpecTicks apart)
MaxSaves == 2
\* at most this many uncompleted playAsync/pauseAsync calls per player handle
MaxPending == 2
\* at most this many saveProgress calls in one behaviour of SpecTicks
MaxTickSaves == 13
\* the tick stream of SpecTicks: status events per second, seconds of playback
TicksPerSecond == 3
StreamSeconds == 30
\* the films of SpecPolicy have at most this many clips
MaxClips == 5
\* the content store returns at most this many clip rows for a film in
\* SpecContent
MaxRows == 3

(* Program constants *)

\* viewabilityConfig.itemVisiblePercentThreshold
itemVisiblePercentThreshold == 70
\* viewabilityConfig.minimumViewTime (ms)
minimumViewTime == 100
\* handleProgress: "Save progress every 10 seconds"
SaveIntervalSec == 10

-----------------------------------------------------------------------------
(* Inputs *)

\* user?.id || ''
Users == {"", "u1"}

\* positions (ms) a status event of a playing clip may report
Positions == {0, 7000, 10000}
\* position (ms) of the first status event of a tick stream once playback runs
Offsets == {0, 150, 333}

\* visibility measurements: visible percent and time held (ms)
Percents == {69, 70, 100}
HeldTimes == {99, 100}

\* rows of the clips table as the content store returns them (unordered)
Row(id, idx, free, sec) ==
    [id |-> id, idx |-> idx, is_free_preview |-> free, duration_sec |-> sec]
\* a film whose second clip is denied to a free viewer, the same film with
\* both clips open (a restricted clip inside the free window), and the film
\* after its second clip was withdrawn
RawFilms ==
    { << Row("a", 0, TRUE, 10), Row("b", 1, FALSE, 10) >>,
      << Row("b", 1, TRUE, 10), Row("a", 0, FALSE, 10) >>,
      << Row("a", 0, TRUE, 10) >> }
\* a film of one clip long enough for 30 seconds of playback
RawTickFilm == << Row("a", 0, TRUE, 40) >>

\* ids of the clips of the films of SpecPolicy
ClipIds == << "a", "b", "c", "d", "e", "f", "g", "h" >>
\* the rows of a film of n clips in idx order; free[k] is is_free_preview of
\* the k-th of them
PolicyRows(n, free) == [k \in 1..n |-> Row(ClipIds[k], k - 1, free[k], 10)]
\* every film of 0..MaxClips clips, whatever clips are free previews
RawPolicyFilms ==
    UNION { {PolicyRows(n, free) : free \in [1..n -> BOOLEAN]} : n \in 0..MaxClips }
\* the clip rows the content store may return for a film, in any order of
\* idx (equal idx included) and with any clips free previews
FetchedRows ==
    UNION { { [k \in 1..n |-> Row(ClipIds[k], idx[k], free[k], 10)] :
                idx \in [1..n -> 0..(MaxRows - 1)], free \in [1..n -> BOOLEAN] } :
            n \in 0..MaxRows }
\* the films the content store may return to getAllFilms: up to two of them
FetchedFilms ==
    {<<>>} \cup {<<r>> : r \in RawFilms} \cup {<<r, q>> : r, q \in RawFilms}
\* the clipIndex / currentIndex arguments of the calls of SpecPolicy: the
\* valid indexes of every film and some on either side of them
CallIndexes == (0 - 2)..(MaxClips + 1)

-----------------------------------------------------------------------------
(* clipsService.ts *)

\* Array.prototype.sort((a, b) => a.idx - b.idx): a stable insertion sort
RECURSIVE InsertByIdx(_, _)
InsertByIdx(row, sorted) ==
    IF sorted = <<>> THEN <<row>>
    ELSE IF row.idx < Head(sorted).idx THEN <<row>> \o sorted
         ELSE <<Head(sorted)>> \o InsertByIdx(row, Tail(sorted))

RECURSIVE SortByIdx(_)
SortByIdx(rows) ==
    IF rows = <<>> THEN <<>>
    ELSE LET n == Len(rows)
         IN  InsertByIdx(rows[n], SortByIdx(SubSeq(rows, 1, n - 1)))

\* getFilm handing the clips on in the order fetched
getFilm_Unsorted(rows) ==
    LET sortedClips ==
            [k \in 1..Len(rows) |->
                LET clip == rows[k]
                IN  [id |-> clip.id, duration |-> clip.duration_sec,
                     order |-> clip.idx, isPremium |-> ~clip.is_free_preview]]
        freeClipCount ==
            Cardinality({k \in 1..Len(rows) : rows[k].is_free_preview = TRUE})
    IN  [clips |-> sortedClips, totalClips |-> Len(rows),
         freeClipLimit |-> freeClipCount]

\* getFilm taking the number of clips for the free clip limit
getFilm_LimitIsTotal(rows) ==
    LET sortedClips ==
            [k \in 1..Len(rows) |->
                LET clip == SortByIdx(rows)[k]
                IN  [id |-> clip.id, duration |-> clip.duration_sec,
                     order |-> clip.idx, isPremium |-> ~clip.is_free_preview]]
    IN  [clips |-> sortedClips, totalClips |-> Len(rows),
         freeClipLimit |-> Len(rows)]

\* getFilm: the Film built from the fetched rows
getFilm(rows) ==
    LET sortedClips ==
            [k \in 1..Len(rows) |->
                LET clip == SortByIdx(rows)[k]
                IN  [id |-> clip.id, duration |-> clip.duration_sec,
                     order |-> clip.idx, isPremium |-> ~clip.is_free_preview]]
        freeClipCount ==
            Cardinality({k \in 1..Len(rows) : rows[k].is_free_preview = TRUE})
    IN  [clips |-> sortedClips, totalClips |-> Len(rows),
         freeClipLimit |-> freeClipCount]

Films == {getFilm(rows) : rows \in RawFilms}

Indexes(f) == 0..(Len(f.clips) - 1)

\* status.durationMillis of the clip at index i: the length of its stream
DurationMillis(f, i) == f.clips[i + 1].duration * 1000

\* canAccessClip deciding a premium clip on the viewer's entitlement alone,
\* without the free clip limit
canAccessClip_FlagOnly(f, clipIndex, userHasPremium) ==
    IF clipIndex \notin Indexes(f) THEN FALSE
    ELSE IF ~f.clips[clipIndex + 1].isPremium THEN TRUE
    ELSE userHasPremium

\* canAccessClip without the userHasPremium test
canAccessClip_IgnoresPremium(f, clipIndex, userHasPremium) ==
    IF clipIndex \notin Indexes(f) THEN FALSE
    ELSE IF ~f.clips[clipIndex + 1].isPremium THEN TRUE
    ELSE clipIndex < f.freeClipLimit

\* canAccessClip answering a missing clip with the viewer's entitlement
canAccessClip_PremiumFailsOpen(f, clipIndex, userHasPremium) ==
    IF clipIndex \notin Indexes(f) THEN userHasPremium
    ELSE IF ~f.clips[clipIndex + 1].isPremium THEN TRUE
    ELSE IF userHasPremium THEN TRUE
    ELSE clipIndex < f.freeClipLimit

\* film.clips[clipIndex] is undefined for every clipIndex that is not an index
\* of the array, and !undefined is true
canAccessClip(f, clipIndex, userHasPremium) ==
    IF clipIndex \notin Indexes(f) THEN FALSE
    ELSE IF ~f.clips[clipIndex + 1].isPremium THEN TRUE
    ELSE IF userHasPremium THEN TRUE
    ELSE clipIndex < f.freeClipLimit

\* Math.min, Math.max
MathMin(a, b) == IF a <= b THEN a ELSE b
MathMax(a, b) == IF a >= b THEN a ELSE b

\* getNextClipIndex without Math.min
getNextClipIndex_NoClamp(index, totalClips) == index + 1

getNextClipIndex(index, totalClips) == MathMin(index + 1, totalClips - 1)

getPreviousClipIndex(index) == MathMax(index - 1, 0)

\* syncProgressToCloud: the watch_progress row upserted for a progress object
\* (film_id is the one film of the model)
CloudRow(progress) ==
    [user_id |-> progress.userId,
     current_clip_index |-> progress.currentClipIndex,
     playback_time |-> progress.currentTime,
     last_watched_at |-> progress.lastWatchedAt]

\* getCloudProgress: the progress object built from a fetched row
FromCloudRow(data) ==
    [currentClipIndex |-> data.current_clip_index,
     currentTime |-> data.playback_time,
     lastWatchedAt |-> data.last_watched_at,
     userId |-> data.user_id]

\* getWatchProgress: the cloud record when the user is signed in and the fetch
\* returns one, otherwise the local record (<<>> is null)
getWatchProgress(userId, remoteOk) ==
    IF userId # "" /\ remoteOk /\ remoteStore[userId] # <<>>
    THEN <<FromCloudRow(remoteStore[userId][1])>>
    ELSE localStore

\* how a call to a collaborator ends: it resolves with its value, resolves
\* with an error, or rejects
Outcomes == {"ok", "error", "throws"}
\* AsyncStorage.getItem followed by JSON.parse: the stored value is read, or
\* one of the two throws (the storage fails, the value cannot be parsed)
LocalOutcomes == {"ok", "throws"}

\* a function returns v / an error leaves the function
Returned(v) == [raised |-> FALSE, ret |-> v]
Raised == [raised |-> TRUE, ret |-> <<>>]
\* try { r } catch { return fallback }
Catch(r, fallback) == IF r.raised THEN Returned(fallback) ELSE r

\* getLocalProgress without its try/catch
getLocalProgress_NoCatch(local) ==
    IF local = "ok" THEN Returned(localStore) ELSE Raised

\* getLocalProgress reading nothing
getLocalProgress_Absent(local) == Returned(<<>>)

getLocalProgress(local) ==
    Catch(IF local = "ok" THEN Returned(localStore) ELSE Raised, <<>>)

getCloudProgress(userId, remote) ==
    Catch(IF remote = "throws" THEN Raised
          ELSE IF remote = "error" \/ remoteStore[userId] = <<>>
               THEN Returned(<<>>)
               ELSE Returned(<<FromCloudRow(remoteStore[userId][1])>>),
          <<>>)

\* getWatchProgress trying the local cache first
getWatchProgressResult_LocalFirst(userId, remote, local) ==
    LET localProgress == getLocalProgress(local)
    IN  IF localProgress.ret # <<>> \/ userId = "" THEN localProgress
        ELSE getCloudProgress(userId, remote)

\* getWatchProgress with the outcomes of the cloud fetch and of the local read
getWatchProgressResult(userId, remote, local) ==
    LET cloudProgress ==
            IF userId # "" THEN getCloudProgress(userId, remote)
            ELSE Returned(<<>>)
    IN  IF cloudProgress.raised \/ cloudProgress.ret # <<>> THEN cloudProgress
        ELSE getLocalProgress(local)

\* getFilm with the outcome of the films query (<<>> is null)
getFilmResult(rows, outcome) ==
    Catch(IF outcome = "throws" THEN Raised
          ELSE IF outcome = "error" THEN Returned(<<>>)
               ELSE Returned(<<getFilm(rows)>>),
          <<>>)

\* getAllFilms: films.map builds each film with the code getFilm has
getAllFilms(fetched) == [k \in 1..Len(fetched) |-> getFilm(fetched[k])]

\* getAllFilms with the outcome of the films query (<<>> is [])
getAllFilmsResult(fetched, outcome) ==
    Catch(IF outcome = "throws" THEN Raised
          ELSE IF outcome = "error" \/ Len(fetched) = 0 THEN Returned(<<>>)
               ELSE Returned(getAllFilms(fetched)),
          <<>>)

-----------------------------------------------------------------------------
(* watch.tsx *)

\* the WatchProgress object a save stores (filmId is the one film of the model;
\* lastWatchedAt, new Date(), is the rank of the call)
Stored(s) ==
    [currentClipIndex |-> s.currentClipIndex, currentTime |-> s.currentTime,
     lastWatchedAt |-> s.lastWatchedAt, userId |-> s.userId]

\* saveProgress with saveWatchProgress starting the cloud sync of a signed-in
\* user without awaiting the local write
saveProgress_CloudFirst(clipIndex, currentTime, src, fromClip) ==
    Append(saves,
           [currentClipIndex |-> clipIndex, currentTime |-> currentTime,
            lastWatchedAt |-> Len(saves) + 1, userId |-> user,
            phase |-> IF user # "" THEN "remote" ELSE "local",
            failed |-> FALSE, src |-> src, fromClip |-> fromClip])

\* saveProgress up to its first await: the progress object is built and
\* saveWatchProgress has started the local write.  src and fromClip record
\* which handler made the call and which clip's player the position came from
\* (-1: none); they are not part of the stored object.
saveProgress(clipIndex, currentTime, src, fromClip) ==
    Append(saves,
           [currentClipIndex |-> clipIndex, currentTime |-> currentTime,
            lastWatchedAt |-> Len(saves) + 1, userId |-> user,
            phase |-> "local", failed |-> FALSE, src |-> src,
            fromClip |-> fromClip])

\* handleClipChange saving the screen's currentClipIndex state, which
\* setCurrentClipIndex has not updated yet, instead of its argument
handleClipChange_StaleIndex(clipIndex, cap) ==
    IF ~canAccessClip(film, clipIndex, FALSE)
    THEN /\ alert' = clipIndex
         /\ UNCHANGED <<watchClipIndex, saves>>
    ELSE /\ Len(saves) < cap
         /\ watchClipIndex' = clipIndex
         /\ saves' = saveProgress(watchClipIndex, 0, "change", -1)
         /\ UNCHANGED alert

\* handleClipChange going on to save after raising the alert
handleClipChange_AlertThenSave(clipIndex, cap) ==
    /\ Len(saves) < cap
    /\ watchClipIndex' = clipIndex
    /\ saves' = saveProgress(clipIndex, 0, "change", -1)
    /\ alert' = IF ~canAccessClip(film, clipIndex, FALSE) THEN clipIndex ELSE alert

handleClipChange(clipIndex, cap) ==
    IF ~canAccessClip(film, clipIndex, FALSE)
    THEN /\ alert' = clipIndex
         /\ UNCHANGED <<watchClipIndex, saves>>
    ELSE /\ Len(saves) < cap
         /\ watchClipIndex' = clipIndex
         /\ saves' = saveProgress(clipIndex, 0, "change", -1)
         /\ UNCHANGED alert

\* Math.floor(currentTime) % 10 === 0, currentTime = positionMillis / 1000
ThrottleHit(positionMillis) == (positionMillis \div 1000) % SaveIntervalSec = 0

handleProgress(clipIndex, positionMillis, fromClip, cap) ==
    IF ThrottleHit(positionMillis)
    THEN /\ Len(saves) < cap
         /\ saves' = saveProgress(clipIndex, positionMillis, "tick", fromClip)
    ELSE UNCHANGED saves

-----------------------------------------------------------------------------
(* VerticalVideoPlayer.tsx *)

Cmd(op, toggle) == [op |-> op, toggle |-> toggle]

\* isVisible prop of the item at index i
isVisible(i) == i = currentIndex

\* the viewability test without minimumViewTime in viewabilityConfig
IsViewable_NoMinimumViewTime(percent, held) ==
    percent >= itemVisiblePercentThreshold

\* FlatList's viewability test under viewabilityConfig
IsViewable(percent, held) ==
    percent >= itemVisiblePercentThreshold /\ held >= minimumViewTime

\* the effect on [isVisible] setting isPlaying without calling pauseAsync
VisibilityEffect_NoPause(newIndex) ==
    IF currentIndex # newIndex /\ currentIndex \in Indexes(film)
    THEN /\ Len(cmds[currentIndex]) < MaxPending
         /\ cmds' = cmds
         /\ isPlaying' = [isPlaying EXCEPT ![currentIndex] = FALSE]
    ELSE UNCHANGED <<cmds, isPlaying>>

\* the VideoItem effect on [isVisible] of the item that stops being visible
\* when the active index becomes newIndex, with the other items' state kept
VisibilityEffect(newIndex) ==
    IF currentIndex # newIndex /\ currentIndex \in Indexes(film)
    THEN /\ Len(cmds[currentIndex]) < MaxPending
         /\ cmds' = [cmds EXCEPT ![currentIndex] = Append(@, Cmd("pause", FALSE))]
         /\ isPlaying' = [isPlaying EXCEPT ![currentIndex] = FALSE]
    ELSE UNCHANGED <<cmds, isPlaying>>

\* onViewableItemsChanged holding a report back until every progress write
\* has completed
onViewableItemsChanged_AwaitsWrites(viewableItems, cap) ==
    /\ \A k \in 1..Len(saves) : saves[k].phase = "done"
    /\ IF Len(viewableItems) > 0
       THEN LET newIndex == viewableItems[1]
            IN  /\ currentIndex' = newIndex
                /\ VisibilityEffect(newIndex)
                /\ handleClipChange(newIndex, cap)
       ELSE UNCHANGED <<currentIndex, cmds, isPlaying, alert, watchClipIndex, saves>>

onViewableItemsChanged(viewableItems, cap) ==
    IF Len(viewableItems) > 0
    THEN LET newIndex == viewableItems[1]
         IN  /\ currentIndex' = newIndex
             /\ VisibilityEffect(newIndex)
             /\ handleClipChange(newIndex, cap)
    ELSE UNCHANGED <<currentIndex, cmds, isPlaying, alert, watchClipIndex, saves>>

\* the scroll surface measures item index at percent visible for held ms and
\* FlatList reports the viewable items
ViewabilityReport(index, percent, held, cap) ==
    /\ lastReport' = [index |-> index, percent |-> percent, held |-> held]
    /\ onViewableItemsChanged(
          IF IsViewable(percent, held) THEN <<index>> ELSE <<>>, cap)
    /\ UNCHANGED <<film, user, watchProgress, isLoaded, hState, hPos,
                   localStore, remoteStore, tickNo, call>>

\* the status the handle of clip i emits when its position reads p
Status(i, p) ==
    LET finished == hState[i] = "playing" /\ p >= DurationMillis(film, i)
    IN  [isLoaded |-> hState[i] # "unloaded",
         positionMillis |-> p,
         isPlaying |-> hState[i] = "playing" /\ ~finished,
         didJustFinish |-> finished]

handlePlaybackStatusUpdate(i, status, cap) ==
    IF status.isLoaded
    THEN /\ isLoaded' = [isLoaded EXCEPT ![i] = TRUE]
         /\ isPlaying' = [isPlaying EXCEPT ![i] =
                            IF status.didJustFinish THEN FALSE ELSE status.isPlaying]
         /\ handleProgress(currentIndex, status.positionMillis, i, cap)
         /\ IF /\ ~status.isPlaying
               /\ isVisible(i)
               /\ ~status.didJustFinish
               /\ status.positionMillis = 0
            THEN /\ Len(cmds[i]) < MaxPending
                 /\ cmds' = [cmds EXCEPT ![i] = Append(@, Cmd("play", FALSE))]
            ELSE UNCHANGED cmds
    ELSE /\ isLoaded' = [isLoaded EXCEPT ![i] = FALSE]
         /\ UNCHANGED <<isPlaying, saves, cmds>>

\* a status event whose didJustFinish moves the feed on to the next clip
StatusEvent_AutoAdvance(i, p, cap) ==
    /\ IF hState[i] = "playing" THEN p >= hPos[i] ELSE p = hPos[i]
    /\ hPos' = [hPos EXCEPT ![i] = p]
    /\ hState' = [hState EXCEPT ![i] =
                    IF Status(i, p).didJustFinish THEN "paused" ELSE @]
    /\ handlePlaybackStatusUpdate(i, Status(i, p), cap)
    /\ currentIndex' = IF Status(i, p).didJustFinish
                       THEN getNextClipIndex(currentIndex, film.totalClips)
                       ELSE currentIndex
    /\ UNCHANGED <<film, user, watchClipIndex, watchProgress, alert,
                   lastReport, localStore, remoteStore, call>>

\* a status event of clip i: a playing clip has advanced to p, and stops
\* there when p is the end of its stream
StatusEvent(i, p, cap) ==
    /\ IF hState[i] = "playing" THEN p >= hPos[i] ELSE p = hPos[i]
    /\ hPos' = [hPos EXCEPT ![i] = p]
    /\ hState' = [hState EXCEPT ![i] =
                    IF Status(i, p).didJustFinish THEN "paused" ELSE @]
    /\ handlePlaybackStatusUpdate(i, Status(i, p), cap)
    /\ UNCHANGED <<film, user, watchClipIndex, watchProgress, alert,
                   currentIndex, lastReport, localStore, remoteStore, call>>

StatusTick(i, p, cap) == StatusEvent(i, p, cap) /\ UNCHANGED tickNo

\* the items (partly) on screen, which the viewer can tap
OnScreen(i) ==
    \/ i = lastReport.index
    \/ /\ lastReport.percent < 100
       /\ i \in {lastReport.index - 1, lastReport.index + 1}

\* togglePlayPause up to its await
togglePlayPause(i) ==
    /\ isLoaded[i]
    /\ Len(cmds[i]) < MaxPending
    /\ cmds' = [cmds EXCEPT ![i] =
                  Append(@, Cmd(IF isPlaying[i] THEN "pause" ELSE "play", TRUE))]
    /\ UNCHANGED <<film, user, watchClipIndex, watchProgress, alert,
                   currentIndex, lastReport, isPlaying, isLoaded, hState, hPos,
                   localStore, remoteStore, saves, tickNo, call>>

Tap(i) == OnScreen(i) /\ togglePlayPause(i)

-----------------------------------------------------------------------------
(* The player handle (expo-av Video) *)

\* the stream of clip i is loaded
Load(i) ==
    /\ hState[i] = "unloaded"
    /\ hState' = [hState EXCEPT ![i] = "paused"]
    /\ UNCHANGED <<film, user, watchClipIndex, watchProgress, alert,
                   currentIndex, lastReport, isPlaying, isLoaded, hPos, cmds,
                   localStore, remoteStore, saves, tickNo, call>>

\* the oldest playAsync/pauseAsync call on clip i settles; it rejects when the
\* handle is not loaded or the player fails (ok = FALSE).  A call of
\* togglePlayPause then runs its continuation (setIsPlaying) or its catch.
CommandDone(i, ok) ==
    /\ cmds[i] # <<>>
    /\ LET c == Head(cmds[i])
           success == ok /\ hState[i] # "unloaded"
       IN  /\ cmds' = [cmds EXCEPT ![i] = Tail(@)]
           /\ hState' = [hState EXCEPT ![i] =
                           IF ~success THEN @
                           ELSE IF c.op = "play" THEN "playing" ELSE "paused"]
           /\ isPlaying' = [isPlaying EXCEPT ![i] =
                              IF success /\ c.toggle THEN c.op = "play" ELSE @]
    /\ UNCHANGED <<film, user, watchClipIndex, watchProgress, alert,
                   currentIndex, lastReport, isLoaded, hPos, localStore,
                   remoteStore, saves, tickNo, call>>

-----------------------------------------------------------------------------
(* Completion of the asynchronous writes of saveWatchProgress *)

LocalPending == {k \in 1..Len(saves) : saves[k].phase = "local"}
RemotePending == {k \in 1..Len(saves) : saves[k].phase = "remote"}
Min(S) == CHOOSE x \in S : \A y \in S : x <= y

\* AsyncStorage.setItem of the oldest pending save settles (AsyncStorage runs
\* its calls in order); saveWatchProgress goes on to the cloud sync for a
\* signed-in user, otherwise saveProgress resumes and sets watchProgress.
LocalWriteDone(ok) ==
    /\ LocalPending # {}
    /\ LET k == Min(LocalPending)
           toCloud == saves[k].userId # ""
       IN  /\ localStore' = IF ok THEN <<Stored(saves[k])>> ELSE localStore
           /\ saves' = [saves EXCEPT ![k].phase =
                                        IF toCloud THEN "remote" ELSE "done",
                                     ![k].failed = ~ok]
           /\ watchProgress' =
                 IF toCloud THEN watchProgress ELSE <<Stored(saves[k])>>
    /\ UNCHANGED <<film, user, watchClipIndex, alert, currentIndex, lastReport,
                   isPlaying, isLoaded, hState, hPos, cmds, remoteStore, tickNo, call>>

\* the upsert of save k settles, and is sent again when it failed
RemoteWriteDone_Retry(k, ok) ==
    /\ k \in RemotePending
    /\ remoteStore' =
          IF ok THEN [remoteStore EXCEPT
                        ![saves[k].userId] = <<CloudRow(Stored(saves[k]))>>]
          ELSE remoteStore
    /\ saves' = [saves EXCEPT ![k].phase = IF ok THEN "done" ELSE "remote",
                              ![k].failed = @ \/ ~ok]
    /\ watchProgress' = IF ok THEN <<Stored(saves[k])>> ELSE watchProgress
    /\ UNCHANGED <<film, user, watchClipIndex, alert, currentIndex, lastReport,
                   isPlaying, isLoaded, hState, hPos, cmds, localStore, tickNo, call>>

\* the upsert of save k settles, in any order with the other upserts; an
\* error is logged and swallowed
RemoteWriteDone(k, ok) ==
    /\ k \in RemotePending
    /\ remoteStore' =
          IF ok THEN [remoteStore EXCEPT
                        ![saves[k].userId] = <<CloudRow(Stored(saves[k]))>>]
          ELSE remoteStore
    /\ saves' = [saves EXCEPT ![k].phase = "done", ![k].failed = @ \/ ~ok]
    /\ watchProgress' = <<Stored(saves[k])>>
    /\ UNCHANGED <<film, user, watchClipIndex, alert, currentIndex, lastReport,
                   isPlaying, isLoaded, hState, hPos, cmds, localStore, tickNo, call>>

-----------------------------------------------------------------------------
(* Mounting the watch screen *)

\* progress?.currentClipIndex || 0
InitialClipIndex(progress) ==
    IF progress = <<>> THEN 0 ELSE progress[1].currentClipIndex

\* the feed mounted on film f at initialClipIndex: every item starts unloaded
\* and paused, and the mount effect of each item that is not visible calls
\* pauseAsync
Mounted(f, initialClipIndex) ==
    /\ currentIndex' = initialClipIndex
    /\ lastReport' = [index |-> initialClipIndex, percent |-> 100, held |-> 0]
    /\ isPlaying' = [i \in Indexes(f) |-> FALSE]
    /\ isLoaded' = [i \in Indexes(f) |-> FALSE]
    /\ hState' = [i \in Indexes(f) |-> "unloaded"]
    /\ hPos' = [i \in Indexes(f) |-> 0]
    /\ cmds' = [i \in Indexes(f) |->
                  IF i # initialClipIndex THEN <<Cmd("pause", FALSE)>> ELSE <<>>]

\* loadFilmAndProgress (the effect on [user, filmId], run at every launch and
\* sign-in/out) for user u: getFilm returns filmData, the stored progress is
\* read, and the feed is mounted afresh
loadFilmAndProgress(u, filmData, remoteOk) ==
    LET progress == getWatchProgress(u, remoteOk)
        clipIndex == InitialClipIndex(progress)
    IN  /\ user' = u
        /\ film' = filmData
        /\ watchClipIndex' = clipIndex
        /\ watchProgress' = progress
        /\ Mounted(filmData, clipIndex)
        /\ UNCHANGED <<alert, localStore, remoteStore, saves, tickNo, call>>

-----------------------------------------------------------------------------
(* Specifications *)

\* the watch screen just mounted on one of films for one of users, with
\* nothing stored
InitWith(films, users) ==
    /\ film \in films
    /\ user \in users
    /\ watchClipIndex = 0
    /\ watchProgress = <<>>
    /\ alert = -1
    /\ currentIndex = 0
    /\ lastReport = [index |-> 0, percent |-> 100, held |-> 0]
    /\ isPlaying = [i \in Indexes(film) |-> FALSE]
    /\ isLoaded = [i \in Indexes(film) |-> FALSE]
    /\ hState = [i \in Indexes(film) |-> "unloaded"]
    /\ hPos = [i \in Indexes(film) |-> 0]
    /\ cmds = [i \in Indexes(film) |->
                 IF i # 0 THEN <<Cmd("pause", FALSE)>> ELSE <<>>]
    /\ localStore = <<>>
    /\ remoteStore = [u \in Users \ {""} |-> <<>>]
    /\ saves = <<>>
    /\ tickNo = 0
    /\ call = NoCall

Init == InitWith(Films, Users)

\* The feed: the scroll surface and the players
Scrolls ==
    \E i \in Indexes(film), pc \in Percents, h \in HeldTimes :
        ViewabilityReport(i, pc, h, MaxSaves)
Ticks == \E i \in Indexes(film), p \in Positions : StatusTick(i, p, MaxSaves)
Loads == \E i \in Indexes(film) : Load(i)
Commands == \E i \in Indexes(film), ok \in BOOLEAN : CommandDone(i, ok)
Taps == \E i \in Indexes(film) : Tap(i)

NextAuto == Scrolls \/ Ticks \/ Loads \/ Commands

\* SpecAuto: the feed driven by visibility reports and playback status events
\* alone.  The writes the handlers start stay pending: their completion
\* touches the stores and watchProgress only, which no feed handler reads.
SpecAuto == Init /\ [][NextAuto]_vars

\* SpecAutoLive: SpecAuto with the players at work: a stream that can load
\* loads, a player goes on emitting its status events, and a command in
\* flight settles.  The viewer is free to stop scrolling.
SpecAutoLive ==
    SpecAuto /\ WF_vars(Loads) /\ WF_vars(Ticks) /\ WF_vars(Commands)

\* the clip indexes of the films of Init
FeedIndexes == UNION {Indexes(f) : f \in Films}

Next == NextAuto \/ Taps

\* Spec: the feed with the viewer's taps on the play/pause button
Spec == Init /\ [][Next]_vars

\* the film of one clip
SoloFilm == getFilm(RawTickFilm)

NextPause ==
    \/ \E pc \in Percents, h \in HeldTimes : ViewabilityReport(0, pc, h, MaxSaves)
    \/ Load(0)
    \/ \E p \in Positions : StatusTick(0, p, MaxSaves)
    \/ CommandDone(0, TRUE)
    \/ Tap(0)

\* SpecPause: the feed of a film of one clip whose player carries out every
\* command.  The clip is never deactivated and its first status event sends
\* the play that starts it, so the loaded clip is at rest inside its stream
\* (paused, no command in flight) only after a pause of togglePlayPause.
SpecPause == InitWith({SoloFilm}, {""}) /\ [][NextPause]_vars

\* The stores: the asynchronous writes settle and the screen is launched again
AcceptedScrolls ==
    \E i \in Indexes(film) : ViewabilityReport(i, 100, minimumViewTime, MaxSaves)
LocalWrites == \E ok \in BOOLEAN : LocalWriteDone(ok)
RemoteWrites == \E k \in 1..Len(saves), ok \in BOOLEAN : RemoteWriteDone(k, ok)
Launches ==
    \E u \in Users, f \in Films, ok \in BOOLEAN : loadFilmAndProgress(u, f, ok)
StartTicks == \E i \in Indexes(film) : StatusTick(i, 0, MaxSaves)

NextSave ==
    AcceptedScrolls \/ StartTicks \/ Loads \/ Commands \/ LocalWrites
        \/ RemoteWrites

\* SpecSave: the feed under fully visible items, with the progress writes
\* settling in every order
SpecSave == Init /\ [][NextSave]_vars

\* the film whose two clips are both open to a viewer without premium
OpenFilm == getFilm(<< Row("b", 1, TRUE, 10), Row("a", 0, FALSE, 10) >>)

InitWrites == InitWith({OpenFilm}, Users)

\* SpecWrites: SpecSave on the film on which every clip change is written
SpecWrites == InitWrites /\ [][NextSave]_vars

\* the viewer taps the play/pause button of the active clip
ActiveTaps == Tap(currentIndex)

NextToggle == NextAuto \/ ActiveTaps

\* SpecToggle: the feed of OpenFilm with the viewer tapping only the button
\* of the active clip, so that a toggle command pending on another clip was
\* issued while that clip was the active one
SpecToggle == InitWith({OpenFilm}, {""}) /\ [][NextToggle]_vars

NextStore == NextSave \/ Launches

\* SpecStore: SpecSave with the watch screen launched again at any time, for
\* any user and on the film as the content store then returns it
SpecStore == Init /\ [][NextStore]_vars

\* The tick stream: one clip played for StreamSeconds at TicksPerSecond
StreamTicks == TicksPerSecond * StreamSeconds

\* position of the k-th status event of the stream after its first one
StreamStep(k) == (k * 1000) \div TicksPerSecond

InitialReport ==
    /\ saves = <<>>
    /\ ViewabilityReport(0, 100, minimumViewTime, MaxTickSaves)

\* the status event of the loaded clip at position 0, which starts playback
FirstTick ==
    /\ hState[0] = "paused" /\ hPos[0] = 0 /\ cmds[0] = <<>>
    /\ saves # <<>>
    /\ StatusTick(0, 0, MaxTickSaves)

\* the next status event of the playing clip, a third of a second after the
\* last one; the first of them comes at any offset
StreamTick ==
    /\ hState[0] = "playing"
    /\ tickNo < StreamTicks
    /\ \E p \in IF tickNo = 0 THEN Offsets
                ELSE {hPos[0] - StreamStep(tickNo - 1) + StreamStep(tickNo)} :
          StatusEvent(0, p, MaxTickSaves)
    /\ tickNo' = tickNo + 1

NextTicks ==
    InitialReport \/ Load(0) \/ FirstTick \/ CommandDone(0, TRUE) \/ StreamTick
        \/ LocalWriteDone(TRUE)

InitTicks == InitWith({getFilm(RawTickFilm)}, {""})

\* SpecTicks: the initial clip change, then the status events of
\* StreamSeconds of playback of one clip at TicksPerSecond
SpecTicks == InitTicks /\ [][NextTicks]_vars

\* The pure functions of clipsService, called on any film
\* clipsService.canAccessClip(film, clipIndex, userHasPremium)
canAccessClipCall(clipIndex, userHasPremium) ==
    /\ call' = [fn |-> "canAccessClip", clipIndex |-> clipIndex,
                userHasPremium |-> userHasPremium,
                ret |-> canAccessClip(film, clipIndex, userHasPremium)]
    /\ UNCHANGED feedVars

\* clipsService.getNextClipIndex(index, film.totalClips)
getNextClipIndexCall(index) ==
    /\ call' = [fn |-> "getNextClipIndex", currentIndex |-> index,
                totalClips |-> film.totalClips,
                ret |-> getNextClipIndex(index, film.totalClips)]
    /\ UNCHANGED feedVars

\* clipsService.getPreviousClipIndex(index)
getPreviousClipIndexCall(index) ==
    /\ call' = [fn |-> "getPreviousClipIndex", currentIndex |-> index,
                ret |-> getPreviousClipIndex(index)]
    /\ UNCHANGED feedVars

AccessCalls ==
    \E i \in CallIndexes, premium \in BOOLEAN : canAccessClipCall(i, premium)
NextCalls == \E i \in CallIndexes : getNextClipIndexCall(i)
PreviousCalls == \E i \in CallIndexes : getPreviousClipIndexCall(i)

NextPolicy == AccessCalls \/ NextCalls \/ PreviousCalls

PolicyFilms == {getFilm(rows) : rows \in RawPolicyFilms}

InitPolicy == InitWith(PolicyFilms, {""})

\* SpecPolicy: canAccessClip, getNextClipIndex and getPreviousClipIndex called
\* with any index on any film of up to MaxClips clips
SpecPolicy == InitPolicy /\ [][NextPolicy]_vars

\* The progress functions of clipsService, called for any user
\* clip index and position (ms) of the progress objects saved: the objects
\* differ in userId and lastWatchedAt
SavedClips == {1}
SavedTimes == {7000}

\* clipsService.saveWatchProgress(progress) up to its first await
saveWatchProgressCall(userId, clipIndex, currentTime) ==
    /\ Len(saves) < MaxSaves
    /\ saves' = Append(saves,
                       [currentClipIndex |-> clipIndex, currentTime |-> currentTime,
                        lastWatchedAt |-> Len(saves) + 1, userId |-> userId,
                        phase |-> "local", failed |-> FALSE, src |-> "call",
                        fromClip |-> 0 - 1])
    /\ UNCHANGED <<film, user, watchClipIndex, watchProgress, alert,
                   currentIndex, lastReport, isPlaying, isLoaded, hState, hPos,
                   cmds, localStore, remoteStore, tickNo, call>>

\* clipsService.getWatchProgress(userId, filmId); the call is recorded with
\* the stores as it read them
getWatchProgressCall(userId, remote, local) ==
    /\ call' = [fn |-> "getWatchProgress", userId |-> userId,
                remote |-> remote, local |-> local,
                cloudFetched |-> userId # "",
                localStore |-> localStore, remoteStore |-> remoteStore,
                ret |-> getWatchProgressResult(userId, remote, local).ret,
                raised |-> getWatchProgressResult(userId, remote, local).raised]
    /\ UNCHANGED feedVars

SaveCalls ==
    \E u \in Users, i \in SavedClips, t \in SavedTimes :
        saveWatchProgressCall(u, i, t)
ReadCalls ==
    \E u \in Users, remote \in Outcomes, local \in LocalOutcomes :
        getWatchProgressCall(u, remote, local)

NextProgress == SaveCalls \/ LocalWrites \/ RemoteWrites \/ ReadCalls

InitProgress == InitWith({OpenFilm}, {""})

\* SpecProgress: saveWatchProgress and getWatchProgress called for any user,
\* with the writes settling in every order and every call failing or not
SpecProgress == InitProgress /\ [][NextProgress]_vars

\* The content functions of clipsService
\* clipsService.getFilm(filmId), the content store returning rows
getFilmCall(rows, outcome) ==
    /\ call' = [fn |-> "getFilm", rows |-> rows, outcome |-> outcome,
                ret |-> getFilmResult(rows, outcome).ret,
                raised |-> getFilmResult(rows, outcome).raised]
    /\ UNCHANGED feedVars

\* clipsService.getAllFilms(), the content store returning the films fetched
getAllFilmsCall(fetched, outcome) ==
    /\ call' = [fn |-> "getAllFilms", fetched |-> fetched, outcome |-> outcome,
                ret |-> getAllFilmsResult(fetched, outcome).ret,
                raised |-> getAllFilmsResult(fetched, outcome).raised]
    /\ UNCHANGED feedVars

\* one call of getFilm, as the first call of the behaviour
FilmCalls ==
    /\ call = NoCall
    /\ \E rows \in FetchedRows, outcome \in Outcomes : getFilmCall(rows, outcome)
\* one call of getAllFilms, as the first call of the behaviour
AllFilmsCalls ==
    /\ call = NoCall
    /\ \E fetched \in FetchedFilms, outcome \in Outcomes :
          getAllFilmsCall(fetched, outcome)

NextContent == FilmCalls \/ AllFilmsCalls

\* SpecContent: getFilm or getAllFilms called once on whatever the content
\* store returns
SpecContent == InitProgress /\ [][NextContent]_vars

\* The service as a whole
ServiceFilmCalls ==
    \E rows \in RawFilms, outcome \in Outcomes : getFilmCall(rows, outcome)
ServiceAllFilmsCalls ==
    \E fetched \in {<<>>} \cup {<<r>> : r \in RawFilms}, outcome \in Outcomes :
        getAllFilmsCall(fetched, outcome)

NextService == NextProgress \/ ServiceFilmCalls \/ ServiceAllFilmsCalls

\* SpecService: every function of clipsService that reaches a collaborator,
\* called in any order with the collaborator failing or not
SpecService == InitProgress /\ [][NextService]_vars

-----------------------------------------------------------------------------
(* Claims *)

PlayingClips == {i \in DOMAIN isPlaying : isPlaying[i]}

\* C1: after any sequence of accepted visibility reports and playback status
\* events, at most one clip of the feed has isPlaying = TRUE.
C1_SingleActive == Cardinality(PlayingClips) <= 1

PlayIssued(i) == \E k \in 1..Len(cmds[i]) : cmds[i][k].op = "play"

\* C2: while a clip the viewer is denied (canAccessClip false) is the active
\* clip, no play command is issued to it and it stays paused, and the
\* access-denied signal for it has been emitted.
C2_DeniedClipNeverPlays ==
    \A i \in Indexes(film) :
        (i = currentIndex /\ ~canAccessClip(film, i, FALSE))
            => /\ ~PlayIssued(i)
               /\ hState[i] # "playing"
               /\ ~isPlaying[i]
               /\ alert = i

TickSaves == {k \in 1..Len(saves) : saves[k].src = "tick"}

\* C3: no progress write records a position that came from the player of a
\* clip other than the active one: every write made for a status event
\* carries the index of the clip whose player emitted the event.
C3_NoWriteFromBackgroundClip ==
    \A k \in TickSaves : saves[k].fromClip = saves[k].currentClipIndex

\* C4: a throttled write happens only at a position whose integer second is
\* a multiple of 10, and no two throttled writes of the film fall in the same
\* integer second.
C4_OneWritePerSecond ==
    /\ \A k \in TickSaves : (saves[k].currentTime \div 1000) % 10 = 0
    /\ \A j, k \in TickSaves :
          j # k => saves[j].currentTime \div 1000 # saves[k].currentTime \div 1000

StreamDone == tickNo = StreamTicks

\* C5: 3 status events per second over 30 seconds of playback of one clip
\* cause exactly 4 writes, the one of the initial clip change and one each at
\* seconds 10, 20 and 30: never more than 4, and 4 when the stream is over.
C5_ExactlyFourWrites ==
    /\ Len(saves) <= 4
    /\ StreamDone => Len(saves) = 4

\* the step issues the clip-change write for the new active index
ChangeWritten ==
    /\ Len(saves') = Len(saves) + 1
    /\ saves'[Len(saves')].currentClipIndex = currentIndex'
    /\ saves'[Len(saves')].currentTime = 0
    /\ saves'[Len(saves')].src = "change"
    /\ saves'[Len(saves')].phase = "local"

\* C6 (as claimed): every accepted change of the active clip to an index j
\* issues at once a write with currentClipIndex = j and currentTime = 0.
C6_EveryChangeWrites ==
    [][currentIndex' # currentIndex => ChangeWritten]_vars

\* C6 (amended): every accepted change of the active clip to an index j that
\* canAccessClip(film, j, false) allows issues at once a write with
\* currentClipIndex = j and currentTime = 0.
C6_EveryAccessibleChangeWrites ==
    [][(currentIndex' # currentIndex /\ canAccessClip(film, currentIndex', FALSE))
          => ChangeWritten]_vars

\* the active clip has just changed to clip 1 and its write is the last one
C6_Witness ==
    /\ currentIndex = 1
    /\ saves # <<>>
    /\ saves[Len(saves)].src = "change"
    /\ saves[Len(saves)].currentClipIndex = 1
    /\ saves[Len(saves)].currentTime = 0

\* C7: for each user there is never more than one remote upsert of the
\* film's progress in flight.
C7_OneUpsertInFlight ==
    \A u \in Users : Cardinality({k \in RemotePending : saves[k].userId = u}) <= 1

AllSettled == \A k \in 1..Len(saves) : saves[k].phase = "done" /\ ~saves[k].failed

\* C8: once every save has completed (with no write failing), the local cache
\* holds the record of the save issued last, and so does the remote store
\* when the user is signed in.
C8_LastWriteWins ==
    (saves # <<>> /\ AllSettled)
        => LET last == saves[Len(saves)]
           IN  /\ localStore = <<Stored(last)>>
               /\ last.userId # ""
                     => remoteStore[last.userId] = <<CloudRow(Stored(last))>>

\* C9: a visibility report below 70% or held less than 100 ms changes neither
\* the active index nor any playback state, command or write; the active
\* index changes only to the index of a report at >= 70% held >= 100 ms.
C9_OnlyViewableReportsActivate ==
    [][/\ (lastReport' # lastReport
             /\ (lastReport'.percent < 70 \/ lastReport'.held < 100))
          => UNCHANGED <<currentIndex, isPlaying, cmds, saves, watchClipIndex,
                         alert, hState>>
       /\ currentIndex' # currentIndex
          => /\ lastReport'.percent >= 70
             /\ lastReport'.held >= 100
             /\ lastReport'.index = currentIndex']_vars

\* a report for another clip than the active one was refused
C9_Witness ==
    /\ lastReport.index # currentIndex
    /\ lastReport.percent < 70 \/ lastReport.held < 100

\* C10: the active index is always a valid index into the film's clips.
C10_ActiveIndexValid == currentIndex \in Indexes(film)

\* a step in which togglePlayPause of clip i issues its command
ToggleIssued(i) ==
    /\ Len(cmds'[i]) = Len(cmds[i]) + 1
    /\ cmds'[i][Len(cmds'[i])].toggle

\* C11: togglePlayPause issues a play/pause command only for the clip that is
\* the active one and is loaded; for any other clip it issues none.
C11_ToggleOnlyOnActiveLoaded ==
    [][\A i \in Indexes(film) :
          ToggleIssued(i) => (i = currentIndex /\ isLoaded[i])]_vars

\* a step in which the oldest play command of clip i settles without the
\* player playing: the command failed
PlayFailed(i) ==
    /\ cmds[i] # <<>>
    /\ Head(cmds[i]).op = "play"
    /\ cmds'[i] = Tail(cmds[i])
    /\ hState'[i] # "playing"

\* C12: when a play command of a clip fails, the clip's isLoaded is false
\* afterwards and the active index is unchanged.
C12_FailedPlayUnloads ==
    [][\A i \in Indexes(film) :
          PlayFailed(i) => (~isLoaded'[i] /\ currentIndex' = currentIndex)]_vars

\* a step in which the playing clip i reports didJustFinish
JustFinished(i) ==
    /\ hState[i] = "playing"
    /\ hState'[i] = "paused"
    /\ hPos'[i] >= DurationMillis(film, i)
    /\ cmds'[i] = cmds[i]

\* C13: when the active clip reports didJustFinish its isPlaying becomes
\* false and the active index does not change; no playback status event
\* (a step that moves a player's position or a clip's isLoaded) changes the
\* active index.
C13_FinishDoesNotAdvance ==
    [][/\ \A i \in Indexes(film) :
             (i = currentIndex /\ JustFinished(i))
                 => (~isPlaying'[i] /\ currentIndex' = currentIndex)
       /\ (hPos' # hPos \/ isLoaded' # isLoaded)
             => currentIndex' = currentIndex]_vars

\* clip 0 of a film of two clips has played to its end as the active clip,
\* and is still the active clip
C13_Witness ==
    /\ Len(film.clips) = 2
    /\ currentIndex = 0
    /\ hPos[0] >= DurationMillis(film, 0)
    /\ hState[0] = "paused"
    /\ isLoaded[0]
    /\ ~isPlaying[0]

\* the film of the scenario: 5 clips, clips 0-1 free previews (freeClipLimit
\* 2), clips 2-4 premium
ScenarioFilm == getFilm(PolicyRows(5, <<TRUE, TRUE, FALSE, FALSE, FALSE>>))

\* the last call was canAccessClip with a valid index
ValidAccessCall ==
    /\ call.fn = "canAccessClip"
    /\ call.clipIndex \in Indexes(film)

\* C14: for a viewer without premium, canAccessClip(film, i, false) is true
\* for a premium clip with i < freeClipLimit, false for a premium clip with
\* i >= freeClipLimit and true for every clip that is not premium; on the
\* scenario film the results are [true, true, false, false, false].
C14_FreeViewerAccess ==
    (ValidAccessCall /\ ~call.userHasPremium)
        => LET i == call.clipIndex
               clip == film.clips[i + 1]
           IN  /\ (clip.isPremium /\ i < film.freeClipLimit) => call.ret = TRUE
               /\ (clip.isPremium /\ i >= film.freeClipLimit) => call.ret = FALSE
               /\ ~clip.isPremium => call.ret = TRUE
               /\ film = ScenarioFilm => call.ret = (i \in {0, 1})

\* clip 2 of the scenario film was refused to a viewer without premium
C14_Witness ==
    /\ film = ScenarioFilm
    /\ ValidAccessCall
    /\ call.clipIndex = 2
    /\ ~call.userHasPremium
    /\ call.ret = FALSE

\* C15: with userHasPremium = true, canAccessClip(film, i, true) is true for
\* every valid index i, premium clip or not.
C15_PremiumAccess ==
    (ValidAccessCall /\ call.userHasPremium) => call.ret = TRUE

\* a premium clip beyond the free clip limit was granted to a premium viewer
C15_Witness ==
    /\ ValidAccessCall
    /\ call.userHasPremium
    /\ film.clips[call.clipIndex + 1].isPremium
    /\ call.clipIndex >= film.freeClipLimit
    /\ call.ret = TRUE

\* C16: for every index that is negative or >= the number of clips (any index
\* on a film without clips), canAccessClip returns false whatever
\* userHasPremium is; it returns a boolean on every call.
C16_InvalidIndexDenied ==
    call.fn = "canAccessClip"
        => /\ call.ret \in BOOLEAN
           /\ call.clipIndex \notin Indexes(film) => call.ret = FALSE

\* index 0 of a film without clips was refused to a premium viewer
C16_Witness ==
    /\ film.clips = <<>>
    /\ call.fn = "canAccessClip"
    /\ call.clipIndex = 0
    /\ call.userHasPremium
    /\ call.ret = FALSE

\* C17: getNextClipIndex(current, total) = min(current + 1, total - 1), and
\* the result is never negative and always within 0..total-1, for every
\* current and every total, total = 0 included.
C17_NextIndexInBounds ==
    call.fn = "getNextClipIndex"
        => /\ call.ret = IF call.currentIndex + 1 <= call.totalClips - 1
                         THEN call.currentIndex + 1 ELSE call.totalClips - 1
           /\ call.ret >= 0
           /\ call.ret \in 0..(call.totalClips - 1)

\* C18: getNextClipIndex(total - 1, total) = total - 1 for every total >= 1;
\* getPreviousClipIndex(current) = max(current - 1, 0), which is 0 at 0; and
\* a next or previous step from a valid index gives a valid index, so
\* repeated steps never leave 0..total-1.
C18_ClampingIdempotent ==
    /\ call.fn = "getNextClipIndex"
          => /\ (call.totalClips >= 1 /\ call.currentIndex = call.totalClips - 1)
                   => call.ret = call.totalClips - 1
             /\ call.currentIndex \in 0..(call.totalClips - 1)
                   => call.ret \in 0..(call.totalClips - 1)
    /\ call.fn = "getPreviousClipIndex"
          => /\ call.ret = IF call.currentIndex - 1 >= 0
                           THEN call.currentIndex - 1 ELSE 0
             /\ call.currentIndex = 0 => call.ret = 0
             /\ call.currentIndex \in Indexes(film) => call.ret \in Indexes(film)

\* the next index was asked at the last clip of a film of several clips, and
\* is the last clip
C18_Witness ==
    /\ call.fn = "getNextClipIndex"
    /\ call.totalClips >= 2
    /\ call.currentIndex = call.totalClips - 1
    /\ call.ret = call.totalClips - 1

\* save k leaves phase from for phase to in this step
Moves(k, from, to) ==
    /\ k <= Len(saves)
    /\ saves[k].phase = from
    /\ saves'[k].phase = to

\* C19: every save starts with the local write, and its remote upsert is
\* issued only when the local write has settled; the upsert is issued if and
\* only if userId is non-empty, so a save with an empty userId never changes
\* the remote store.
C19_LocalFirstThenRemote ==
    [][/\ \A k \in 1..Len(saves') :
             /\ k > Len(saves) => saves'[k].phase = "local"
             /\ (k <= Len(saves) /\ saves'[k].phase # saves[k].phase)
                   => \/ Moves(k, "local", "remote") /\ saves[k].userId # ""
                      \/ Moves(k, "local", "done") /\ saves[k].userId = ""
                      \/ Moves(k, "remote", "done")
             /\ (Moves(k, "local", "remote") \/ Moves(k, "local", "done"))
                   => \/ localStore' = <<Stored(saves[k])>>
                      \/ saves'[k].failed /\ localStore' = localStore
       /\ remoteStore' # remoteStore
             => \E k \in 1..Len(saves) :
                   /\ Moves(k, "remote", "done")
                   /\ saves[k].userId # ""
                   /\ remoteStore' =
                         [remoteStore EXCEPT
                             ![saves[k].userId] = <<CloudRow(Stored(saves[k]))>>]]_vars

\* a save of a signed-in user is written locally and its upsert is in
\* flight, the remote store still empty
C19_Witness ==
    \E k \in 1..Len(saves) :
        /\ saves[k].userId # ""
        /\ saves[k].phase = "remote"
        /\ localStore = <<Stored(saves[k])>>
        /\ remoteStore[saves[k].userId] = <<>>

\* the upsert of save k fails in this step
RemoteFailed(k) ==
    /\ Moves(k, "remote", "done")
    /\ remoteStore'[saves[k].userId] # <<CloudRow(Stored(saves[k]))>>

\* C20: an upsert that settles, failed or not, completes its save; when it
\* failed the save completes as a successful one does (saveProgress sets
\* watchProgress), the local record and the remote store are unchanged, and
\* the upsert is not issued again: the step starts no write, the save is no
\* longer pending and a completed save stays completed.
C20_RemoteFailureSwallowed ==
    [][\A k \in 1..Len(saves) :
          /\ (saves[k].phase = "remote" /\ saves'[k] # saves[k])
                => saves'[k].phase = "done"
          /\ RemoteFailed(k)
                => /\ watchProgress' = <<Stored(saves[k])>>
                   /\ localStore' = localStore
                   /\ remoteStore' = remoteStore
                   /\ Len(saves') = Len(saves)
                   /\ RemotePending' = RemotePending \ {k}
          /\ saves[k].phase = "done" => saves'[k] = saves[k]]_vars

\* a save whose local write succeeded and whose upsert failed has completed:
\* the local cache holds its record and the remote store has none
C20_Witness ==
    \E k \in 1..Len(saves) :
        /\ saves[k].userId # ""
        /\ saves[k].phase = "done"
        /\ saves[k].failed
        /\ localStore = <<Stored(saves[k])>>
        /\ remoteStore[saves[k].userId] = <<>>
        /\ watchProgress = <<Stored(saves[k])>>

\* the last call was getWatchProgress
ReadCall == call.fn = "getWatchProgress"

\* the stores are as the last call of getWatchProgress read them
ReadIsCurrent ==
    /\ ReadCall
    /\ call.localStore = localStore
    /\ call.remoteStore = remoteStore

\* progress is the object with the fields of save s
SameProgress(progress, s) ==
    /\ progress.currentClipIndex = s.currentClipIndex
    /\ progress.currentTime = s.currentTime
    /\ progress.lastWatchedAt = s.lastWatchedAt
    /\ progress.userId = s.userId

\* C21: getWatchProgress with a non-empty userId returns the remote record
\* when the fetch succeeds with one, and otherwise the record of the local
\* cache; with an empty userId it does not fetch and returns the local
\* record; it returns null exactly when the sources it read gave no record
\* (a source whose read fails gives none).
C21_ReadPath ==
    ReadCall
        => LET remoteGot ==
                   /\ call.userId # ""
                   /\ call.remote = "ok"
                   /\ call.remoteStore[call.userId] # <<>>
               localGot == IF call.local = "ok" THEN call.localStore ELSE <<>>
           IN  /\ remoteGot
                     => LET row == call.remoteStore[call.userId][1]
                        IN  /\ Len(call.ret) = 1
                            /\ call.ret[1].userId = row.user_id
                            /\ call.ret[1].currentClipIndex = row.current_clip_index
                            /\ call.ret[1].currentTime = row.playback_time
                            /\ call.ret[1].lastWatchedAt = row.last_watched_at
               /\ ~remoteGot => call.ret = localGot
               /\ call.userId = "" => ~call.cloudFetched
               /\ call.ret = <<>> <=> (~remoteGot /\ localGot = <<>>)

\* a signed-in read got the remote record while the local cache held another
C21_Witness ==
    /\ ReadCall
    /\ call.userId # ""
    /\ call.remote = "ok"
    /\ call.remoteStore[call.userId] # <<>>
    /\ call.localStore # <<>>
    /\ call.ret # call.localStore
    /\ call.ret = <<FromCloudRow(call.remoteStore[call.userId][1])>>

\* save k completes in this step, none of its writes having failed
CompletesOk(k) ==
    /\ Moves(k, "local", "done") \/ Moves(k, "remote", "done")
    /\ ~saves'[k].failed

\* C22: when a save of a progress object p has completed with its writes
\* successful, getWatchProgress(p.userId, filmId) with the remote store
\* reachable returns an object equal to p; for an empty userId it is the
\* record of the local cache.
C22_RoundTrip ==
    [][\A k \in 1..Len(saves) :
          CompletesOk(k)
              => LET got == getWatchProgressResult(saves[k].userId, "ok", "ok")'
                 IN  /\ ~got.raised
                     /\ Len(got.ret) = 1
                     /\ SameProgress(got.ret[1], saves[k])
                     /\ saves[k].userId = "" => got.ret = localStore']_vars

\* getWatchProgress was called after a successful save of its user had
\* completed, and returned the object saved
C22_Witness ==
    \E k \in 1..Len(saves) :
        /\ ReadIsCurrent
        /\ call.remote = "ok"
        /\ call.local = "ok"
        /\ saves[k].phase = "done"
        /\ ~saves[k].failed
        /\ saves[k].userId = call.userId
        /\ Len(call.ret) = 1
        /\ SameProgress(call.ret[1], saves[k])

\* C23: when the latest save of a signed-in user was written locally and its
\* upsert failed, getWatchProgress for that user returns the locally saved
\* record, not an older one of the remote store.
C23_LocalIsSourceOfTruth ==
    \A k \in 1..Len(saves) :
        (/\ ReadIsCurrent
         /\ call.local = "ok"
         /\ call.userId # ""
         /\ k = Len(saves)
         /\ saves[k].userId = call.userId
         /\ saves[k].phase = "done"
         /\ saves[k].failed
         /\ localStore = <<Stored(saves[k])>>)
            => call.ret = <<Stored(saves[k])>>

\* C24: getWatchProgress never returns to a user, or to the anonymous
\* viewer, a record saved for another user or for the anonymous viewer.
C24_RecordPerUser ==
    (ReadCall /\ call.ret # <<>>) => call.ret[1].userId = call.userId

\* f is a film whose clips are those of rows, each once, ascending in order
SortedFilmOf(f, rows) ==
    /\ Len(f.clips) = Len(rows)
    /\ f.totalClips = Len(f.clips)
    /\ \A j \in 1..(Len(f.clips) - 1) : f.clips[j].order <= f.clips[j + 1].order
    /\ \A k \in 1..Len(rows) :
          Cardinality({j \in 1..Len(f.clips) :
                          /\ f.clips[j].id = rows[k].id
                          /\ f.clips[j].order = rows[k].idx}) = 1

\* the films the last call of getFilm or getAllFilms returned, each with the
\* rows it was built from
ReturnedFilms ==
    IF call.fn = "getFilm"
    THEN {<<call.ret[j], call.rows>> : j \in 1..Len(call.ret)}
    ELSE IF call.fn = "getAllFilms"
         THEN {<<call.ret[j], call.fetched[j]>> : j \in 1..Len(call.ret)}
         ELSE {}

\* C25: the clips of every film getFilm or getAllFilms returns are sorted by
\* order ascending whatever order they were fetched in, and are exactly the
\* fetched clips, totalClips being their number.
C25_ClipsSorted == \A fr \in ReturnedFilms : SortedFilmOf(fr[1], fr[2])

\* getFilm returned a film of three clips fetched in descending idx
C25_Witness ==
    /\ call.fn = "getFilm"
    /\ Len(call.rows) = 3
    /\ call.rows[1].idx > call.rows[2].idx
    /\ call.rows[2].idx > call.rows[3].idx
    /\ Len(call.ret) = 1
    /\ call.ret[1].clips[1].id = call.rows[3].id

\* C26: for every film getFilm or getAllFilms returns, freeClipLimit is the
\* number of its clips with isPremium false, and freeClipLimit <= totalClips.
C26_FreeClipLimitCounts ==
    \A fr \in ReturnedFilms :
        LET f == fr[1]
        IN  /\ f.freeClipLimit =
                  Cardinality({j \in 1..Len(f.clips) : ~f.clips[j].isPremium})
            /\ f.freeClipLimit <= f.totalClips

\* getFilm returned a film of three clips of which one is a free preview
C26_Witness ==
    /\ call.fn = "getFilm"
    /\ Len(call.ret) = 1
    /\ call.ret[1].totalClips = 3
    /\ call.ret[1].freeClipLimit = 1

\* a step of the scenario: clip 0 is the active clip, playing at 7 s, and the
\* active clip becomes clip 1
SwipeAtSevenSeconds ==
    /\ currentIndex = 0
    /\ currentIndex' = 1
    /\ hState[0] = "playing"
    /\ hPos[0] = 7000

\* C27: the swipe from clip 0 (playing at 7 s, no throttle boundary reached)
\* to clip 1 causes no write with currentClipIndex = 0, and none of clip 0's
\* position: it causes at most one write, which is the clip-change write with
\* currentClipIndex = 1 and currentTime = 0, and causes that one when clip 1
\* is accessible.
C27_SwipeWritesNewClipOnly ==
    [][SwipeAtSevenSeconds
          => /\ Len(saves') <= Len(saves) + 1
             /\ SubSeq(saves', 1, Len(saves)) = saves
             /\ \A k \in (Len(saves) + 1)..Len(saves') :
                   /\ saves'[k].currentClipIndex = 1
                   /\ saves'[k].currentTime = 0
                   /\ saves'[k].src = "change"
             /\ canAccessClip(film, 1, FALSE) => ChangeWritten]_vars

\* the swipe has happened: clip 1 is active, clip 0 is still at 7 s with its
\* pause pending, the last write is the one for clip 1 at 0, and no write
\* holds the 7 s
C27_Witness ==
    /\ currentIndex = 1
    /\ hState[0] = "playing"
    /\ hPos[0] = 7000
    /\ saves # <<>>
    /\ saves[Len(saves)].currentClipIndex = 1
    /\ saves[Len(saves)].currentTime = 0
    /\ saves[Len(saves)].src = "change"
    /\ \A k \in 1..Len(saves) : saves[k].currentTime # 7000
    /\ \A k \in 1..Len(saves) :
          saves[k].src = "change" => saves[k].currentClipIndex # 0

\* C28: no failure of a collaborator leaves a function of clipsService as an
\* error: getFilm returns null and getAllFilms an empty list on any backend
\* error, getWatchProgress returns without raising whatever fails, a cached
\* value that cannot be read or parsed reads as no progress, and a save whose
\* local or remote write fails goes on to its next step and completes.
C28_NoFailurePropagates ==
    [][/\ call'.fn # "none" => ~call'.raised
       /\ (call'.fn \in {"getFilm", "getAllFilms"} /\ call'.outcome # "ok")
             => call'.ret = <<>>
       /\ (/\ call'.fn = "getWatchProgress"
           /\ call'.local = "throws"
           /\ \/ call'.userId = ""
              \/ getCloudProgress(call'.userId, call'.remote).ret = <<>>)
             => call'.ret = <<>>
       /\ \A k \in 1..Len(saves) :
             (saves'[k] # saves[k] /\ saves'[k].failed)
                 => saves'[k].phase =
                        IF saves[k].phase = "local" /\ saves[k].userId # ""
                        THEN "remote" ELSE "done"]_vars

\* a save of a signed-in user has completed with a failed write, and a read
\* whose cloud fetch and cache read both failed returned no progress
C28_Witness ==
    /\ \E k \in 1..Len(saves) :
          saves[k].failed /\ saves[k].phase = "done" /\ saves[k].userId # ""
    /\ call.fn = "getWatchProgress"
    /\ call.userId # ""
    /\ call.remote = "throws"
    /\ call.local = "throws"
    /\ call.localStore # <<>>
    /\ call.ret = <<>>
    /\ ~call.raised

\* a step in which a viewability report for another clip than the active one
\* is accepted
AcceptedChange ==
    /\ IsViewable(lastReport'.percent, lastReport'.held)
    /\ lastReport'.index # currentIndex

\* C29: on an accepted visibility report for a candidate index different
\* from the active index, the formerly active clip receives a pause command
\* and ends with isPlaying = false, and the active index becomes the
\* candidate index.
C29_AcceptedChangePausesFormer ==
    [][AcceptedChange
          => /\ currentIndex' = lastReport'.index
             /\ cmds'[currentIndex] =
                    Append(cmds[currentIndex], Cmd("pause", FALSE))
             /\ ~isPlaying'[currentIndex]]_vars

\* clip 1 has just become the active clip while clip 0 was playing: clip 0
\* shows as not playing and its pause is the last command sent to it
C29_Witness ==
    /\ currentIndex = 1
    /\ lastReport.index = 1
    /\ IsViewable(lastReport.percent, lastReport.held)
    /\ hState[0] = "playing"
    /\ ~isPlaying[0]
    /\ cmds[0] # <<>>
    /\ cmds[0][Len(cmds[0])] = Cmd("pause", FALSE)

\* clip i is the active clip again, accessible and loaded, left paused inside
\* its stream with no command in flight
ActiveLeftPaused(i) ==
    /\ i \in Indexes(film)
    /\ currentIndex = i
    /\ canAccessClip(film, i, FALSE)
    /\ isLoaded[i]
    /\ hState[i] = "paused"
    /\ hPos[i] > 0
    /\ hPos[i] < DurationMillis(film, i)
    /\ cmds[i] = <<>>

\* C30: an accessible, loaded clip that becomes the active clip is sent a
\* play command and eventually plays, also when it was active before and was
\* left paused at a position greater than 0: such a clip comes to play (or
\* has a play command in flight) unless the viewer moves on.
C30_ActivatedClipPlays ==
    \A i \in FeedIndexes :
        ActiveLeftPaused(i)
            ~> (i \in Indexes(film)
                   => (hState[i] = "playing" \/ PlayIssued(i) \/ currentIndex # i))

\* the viewability report that makes clip j the active clip and sends the
\* pause to the clip that was active
ReportActivates(j) ==
    /\ ViewabilityReport(j, 100, minimumViewTime, MaxSaves)
    /\ currentIndex' = j
    /\ cmds'[currentIndex] = Append(cmds[currentIndex], Cmd("pause", FALSE))
    /\ \A k \in 1..Len(saves) : saves'[k] = saves[k]

\* C31: persistence never blocks the feed: whatever progress writes are in
\* flight, and without any of them completing, a visibility report for
\* another clip can be accepted, and it updates the active index and issues
\* the pause at once (as long as the save log and the command queue of the
\* model have room).
C31_WritesNeverBlockFeed ==
    \A j \in Indexes(film) :
        (/\ j # currentIndex
         /\ Len(saves) < MaxSaves
         /\ Len(cmds[currentIndex]) < MaxPending)
            => ENABLED ReportActivates(j)

\* the active clip has changed twice while the write of the first change
\* had not completed its local step
C31_Witness ==
    /\ Len(saves) >= 2
    /\ saves[1].src = "change"
    /\ saves[1].phase = "local"
    /\ saves[2].src = "change"
    /\ saves[2].currentClipIndex # saves[1].currentClipIndex
    /\ currentIndex = saves[2].currentClipIndex

\* a step in which the oldest command of clip i, a play of togglePlayPause,
\* settles
TogglePlaySettles(i) ==
    /\ cmds[i] # <<>>
    /\ Head(cmds[i]) = Cmd("play", TRUE)
    /\ cmds'[i] = Tail(cmds[i])

\* C32: a clip deactivated while a play command of togglePlayPause was
\* pending on it ends with isPlaying = false and stays so until it becomes
\* active again: when the pending play settles on the clip, which is not the
\* active one and shows isPlaying = false, it still shows isPlaying = false.
C32_DeactivatedStaysPaused ==
    [][\A i \in Indexes(film) :
          (i # currentIndex /\ ~isPlaying[i] /\ TogglePlaySettles(i))
              => ~isPlaying'[i]]_vars

\* a step in which the feed accepts a report for clip j and calls
\* handleClipChange(j), which canAccessClip refuses
DeniedClipChange(j) ==
    /\ ~canAccessClip(film, j, FALSE)
    /\ \E pc \in Percents, h \in HeldTimes :
          /\ IsViewable(pc, h)
          /\ ViewabilityReport(j, pc, h, MaxSaves)

\* C33: when handleClipChange is called with an index for which
\* canAccessClip is false, no progress write is issued, nothing is stored,
\* and the screen's currentClipIndex and watchProgress keep their values.
C33_DeniedChangePersistsNothing ==
    [][\A j \in Indexes(film) :
          DeniedClipChange(j)
              => /\ saves' = saves
                 /\ localStore' = localStore
                 /\ remoteStore' = remoteStore
                 /\ watchClipIndex' = watchClipIndex
                 /\ watchProgress' = watchProgress
                 /\ alert' = j]_vars

\* the feed has moved to the denied clip 1: the alert is up, the screen still
\* holds clip 0 and nothing was written
C33_Witness ==
    /\ Len(film.clips) = 2
    /\ ~canAccessClip(film, 1, FALSE)
    /\ lastReport.index = 1
    /\ currentIndex = 1
    /\ alert = 1
    /\ watchClipIndex = 0
    /\ saves = <<>>

\* C34: every progress record ever written, by a clip change or by a
\* throttled tick, has a currentClipIndex that canAccessClip allows the
\* viewer.
C34_WritesOnlyAccessibleClips ==
    \A k \in 1..Len(saves) :
        canAccessClip(film, saves[k].currentClipIndex, FALSE)

\* a step in which the feed accepts a report for the clip that is already
\* the active one
SameIndexReport ==
    \E pc \in Percents, h \in HeldTimes :
        /\ IsViewable(pc, h)
        /\ ViewabilityReport(currentIndex, pc, h, MaxSaves)

\* C35: an accepted visibility report whose index is the active index issues
\* no progress write, so that a stored position is not reset to 0.
C35_SameIndexReportWritesNothing ==
    [][SameIndexReport => saves' = saves]_vars

\* the active clip i is loaded and at rest inside its stream: paused, with no
\* command in flight
PausedAtRest(i) ==
    /\ i = currentIndex
    /\ isLoaded[i]
    /\ hState[i] = "paused"
    /\ hPos[i] < DurationMillis(film, i)
    /\ cmds[i] = <<>>

\* C36: a pause of the active clip made through togglePlayPause is never
\* undone by a playback status event: while the clip rests paused, at
\* whatever position (0 included), the only command sent to it is one of
\* togglePlayPause.
C36_UserPauseHolds ==
    [][\A i \in Indexes(film) :
          (PausedAtRest(i) /\ cmds'[i] # cmds[i])
              => cmds'[i] = <<Cmd("play", TRUE)>>]_vars

=============================================================================
